---- MODULE Spec2Model ----
(***************************************************************************)
(* Model of torchtnt/runner/auto_unit.py: AutoTrainUnit.  The unit is      *)
(* constructed once, then an external driver calls train_step once per     *)
(* batch (advancing num_steps_completed after each return) and             *)
(* on_train_epoch_end at epoch boundaries.  Every collaborator call the    *)
(* unit makes during one operation is recorded, in order, in `calls`.      *)
(***************************************************************************)
EXTENDS Integers, Sequences, FiniteSets, TLC

\* ---------------------------------------------------------------- bounds
MaxSteps == 4
MaxEpochs == 2
MaxFreq == 3

\* ------------------------------------------------------------ input sets
\* precision argument: None, a str, or a torch.dtype
NonePrecision == [kind |-> "none", val |-> "None"]
StrPrecision(s) == [kind |-> "str", val |-> s]
DtypePrecision(d) == [kind |-> "dtype", val |-> d]

PrecisionStrings == {"", "fp16", "bf16", "fp8", "FP16"}
PrecisionDtypes == {"float16", "bfloat16", "float32"}

PrecisionArgs ==
    {NonePrecision} \cup {StrPrecision(s) : s \in PrecisionStrings}
                    \cup {DtypePrecision(d) : d \in PrecisionDtypes}

FreqValues == {0 - 2, 0} \cup (1 .. MaxFreq)

DeviceArgs == {"None", "cpu"}

CtorArgs ==
    [module_is_fsdp : BOOLEAN,
     lr_scheduler : BOOLEAN,
     step_lr_interval : {"step", "epoch"},
     device : DeviceArgs,
     log_frequency_steps : FreqValues,
     precision : PrecisionArgs]

NoArgs ==
    [module_is_fsdp |-> FALSE, lr_scheduler |-> FALSE,
     step_lr_interval |-> "epoch", device |-> "None",
     log_frequency_steps |-> 1, precision |-> NonePrecision]

\* what the user's compute_loss hook can do on one invocation
HookResults ==
    {[raises |-> FALSE, loss |-> 1, outputs |-> "a"],
     [raises |-> FALSE, loss |-> 2, outputs |-> "b"],
     [raises |-> TRUE, loss |-> 0, outputs |-> "-"]}

\* the batch handed to train_step by the driver, resident on the host
HostBatch == [batch |-> "b0", device |-> "host"]

\* --------------------------------------------------------------- helpers
Range(s) == {s[i] : i \in 1 .. Len(s)}

\* Python's %, whose result takes the sign of the divisor (b # 0)
PyMod(a, b) ==
    IF b > 0 THEN a % b
    ELSE LET r == (0 - a) % (0 - b) IN 0 - r

\* --------------------------------------------------- precision resolution
Raise(kind, msg) == [raised |-> kind, message |-> msg, value |-> "None"]
Return(v) == [raised |-> "", message |-> << >>, value |-> v]

\* `not precision`: None and the empty string are falsy, a dtype is truthy
PrecisionIsFalsy(p) ==
    \/ p.kind = "none"
    \/ p.kind = "str" /\ p.val = ""

string_to_dtype_mapping ==
    [k \in {"fp16", "bf16"} |-> IF k = "fp16" THEN "float16" ELSE "bfloat16"]

\* variant: an unknown token silently falls back to full precision
_convert_precision_str_to_dtype_Fallback(precision) ==
    IF precision \notin DOMAIN string_to_dtype_mapping
    THEN Return("None")
    ELSE Return(string_to_dtype_mapping[precision])

_convert_precision_str_to_dtype(precision) ==
    IF precision \notin DOMAIN string_to_dtype_mapping
    THEN Raise("ValueError",
               <<"Precision ", precision,
                 " not supported. Please use one of ", "fp16",
                 " or ", "bf16">>)
    ELSE Return(string_to_dtype_mapping[precision])

\* variant: a scaler for every half precision
_get_grad_scaler_from_precision_AnyHalf(precision, module_is_fsdp) ==
    IF precision \in {"float16", "bfloat16"}
    THEN IF module_is_fsdp THEN "ShardedGradScaler" ELSE "GradScaler"
    ELSE "None"

_get_grad_scaler_from_precision(precision, module_is_fsdp) ==
    IF precision = "float16"
    THEN IF module_is_fsdp THEN "ShardedGradScaler" ELSE "GradScaler"
    ELSE "None"

\* torchtnt.utils.get_device_from_env on a host with an accelerator (the
\* grad scaler is only active on such a host)
get_device_from_env == "cuda:0"

NoUnit ==
    [module_is_fsdp |-> FALSE, lr_scheduler |-> FALSE,
     step_lr_interval |-> "epoch", device |-> "None",
     log_frequency_steps |-> 0, precision |-> "None",
     grad_scaler |-> "None"]

\* the precision resolved by lines 72-81
ResolvePrecision(p) ==
    IF PrecisionIsFalsy(p) THEN Return("None")
    ELSE IF p.kind = "str" THEN _convert_precision_str_to_dtype(p.val)
    ELSE Return(p.val)

\* AutoTrainUnit.__init__: the raised error, or the constructed unit
AutoTrainUnitInit(a) ==
    LET base == [module_is_fsdp |-> a.module_is_fsdp,
                 lr_scheduler |-> a.lr_scheduler,
                 step_lr_interval |-> a.step_lr_interval,
                 device |-> IF a.device # "None" THEN a.device
                            ELSE get_device_from_env,
                 log_frequency_steps |-> a.log_frequency_steps,
                 precision |-> "None",
                 grad_scaler |-> "None"]
        res == ResolvePrecision(a.precision)
    IN IF res.raised # ""
       THEN [raised |-> res.raised, message |-> res.message, unit |-> NoUnit]
       ELSE [raised |-> "", message |-> << >>,
             unit |-> [base EXCEPT
                 !.precision = res.value,
                 !.grad_scaler =
                     IF PrecisionIsFalsy(a.precision) THEN "None"
                     ELSE _get_grad_scaler_from_precision(
                              res.value, a.module_is_fsdp)]]

\* ------------------------------------------------------------ collaborators
\* one recorded call: which collaborator or hook was called, and with what
Ev(op) ==
    [op |-> op, scope |-> "-", enabled |-> FALSE, dtype |-> "-",
     loss |-> 0, outputs |-> "-", result |-> 0, step |-> 0 - 1,
     interval |-> "-", device |-> "-", grads |-> "-"]

Call(f, e) == [f EXCEPT !.calls = Append(@, e)]

\* torchtnt.utils.copy_data_to_device: the same batch, on the given device
copy_data_to_device(data, device) == [data EXCEPT !.device = device]

\* torch.cuda.amp.GradScaler (and its sharded variant), enabled, with its
\* defaults: init_scale 2**16, backoff 0.5, growth factor 2 after
\* growth_interval consecutive unskipped steps
InitScale == 65536
GrowthInterval == 2000
NewScaler == [scale |-> InitScale, growth_tracker |-> 0]

\* GradScaler.scale(loss)
ScalerScale(f) ==
    Call([f EXCEPT !.loss = @ * f.scale],
         [Ev("grad_scaler.scale") EXCEPT
             !.loss = f.loss, !.result = f.loss * f.scale])

\* GradScaler.step(optimizer): the optimizer step runs unless the
\* gradients of this step hold an inf/NaN
ScalerStep(f) ==
    LET found == (f.grads = "inf")
    IN Call([f EXCEPT !.found_inf = found,
                      !.opt_steps = IF found THEN @ ELSE @ + 1],
            Ev("grad_scaler.step"))

\* GradScaler.update(): back off after an overflow, else count towards growth
ScalerUpdate(f) ==
    LET g == IF f.found_inf
             THEN [f EXCEPT !.scale = @ \div 2, !.growth_tracker = 0]
             ELSE IF f.growth_tracker + 1 = GrowthInterval
             THEN [f EXCEPT !.scale = @ * 2, !.growth_tracker = 0]
             ELSE [f EXCEPT !.growth_tracker = @ + 1]
    IN Call([g EXCEPT !.found_inf = FALSE], Ev("grad_scaler.update"))

\* Optimizer.step(): one parameter update
OptimizerDirectStep(f) ==
    Call([f EXCEPT !.opt_steps = @ + 1], Ev("optimizer.step"))

\* lr_scheduler.step()
SchedulerStep(f) ==
    Call([f EXCEPT !.sched_steps = @ + 1], Ev("lr_scheduler.step"))

\* ---------------------------------------------------------------- train_step
\* line 133
MoveData(u, f, data) ==
    LET d == copy_data_to_device(data, u.device)
    IN Call([f EXCEPT !.data = d],
            [Ev("copy_data_to_device") EXCEPT !.device = d.device])

\* one invocation of the user's compute_loss hook (lines 135 and 143)
ComputeLoss(f, r, scope) ==
    LET g == Call(f, [Ev("compute_loss") EXCEPT
                         !.scope = scope, !.device = f.data.device,
                         !.loss = r.loss, !.outputs = r.outputs])
    IN IF r.raises THEN [g EXCEPT !.raised = "HookError"]
       ELSE [g EXCEPT !.loss = r.loss, !.outputs = r.outputs]

\* variant: autocast is always on
AutocastEnabled_Always(u) == TRUE

\* line 139
AutocastEnabled(u) == u.precision # "None"

\* variant: the result of the first invocation is the one kept
Forward_KeepFirst(u, f, r1, r2) ==
    LET f1 == ComputeLoss(f, r1, "outside")
        f2 == Call(f1, [Ev("autocast.__enter__") EXCEPT
                           !.enabled = AutocastEnabled(u),
                           !.dtype = u.precision,
                           !.device = u.device])
        f3 == ComputeLoss(f2, r2, "autocast")
        f4 == Call(f3, Ev("autocast.__exit__"))
    IN IF f1.raised # "" THEN f1
       ELSE [f4 EXCEPT !.loss = f1.loss, !.outputs = f1.outputs]

\* lines 135-143: the hook once outside the autocast scope, once inside it
Forward(u, f, r1, r2) ==
    LET f1 == ComputeLoss(f, r1, "outside")
        f2 == Call(f1, [Ev("autocast.__enter__") EXCEPT
                           !.enabled = AutocastEnabled(u),
                           !.dtype = u.precision,
                           !.device = u.device])
        f3 == ComputeLoss(f2, r2, "autocast")
        f4 == Call(f3, Ev("autocast.__exit__"))
    IN IF f1.raised # "" THEN f1 ELSE f4

\* lines 145-147
ScaleLoss(u, f) ==
    IF u.grad_scaler # "None" THEN ScalerScale(f) ELSE f

\* line 148: the backward pass fills the gradients, finite or overflowed
Backward(f, inf) ==
    LET g == IF inf THEN "inf" ELSE "finite"
    IN Call([f EXCEPT !.grads = g],
            [Ev("loss.backward") EXCEPT !.loss = f.loss, !.grads = g])

\* variant: the optimizer is stepped directly on the scaler path too
OptimizerStep_AlsoDirect(u, f) ==
    IF u.grad_scaler # "None"
    THEN OptimizerDirectStep(ScalerUpdate(ScalerStep(f)))
    ELSE OptimizerDirectStep(f)

\* variant: the scaler is stepped but never updated
OptimizerStep_NoUpdate(u, f) ==
    IF u.grad_scaler # "None" THEN ScalerStep(f)
    ELSE OptimizerDirectStep(f)

\* lines 150-156
OptimizerStep(u, f) ==
    IF u.grad_scaler # "None" THEN ScalerUpdate(ScalerStep(f))
    ELSE OptimizerDirectStep(f)

\* variant: zero_grad(set_to_none=False) leaves zero tensors
ZeroGrad_Zeros(f) ==
    Call([f EXCEPT !.grads = "zeros"], Ev("optimizer.zero_grad"))

\* line 159
ZeroGrad(f) ==
    Call([f EXCEPT !.grads = "None"], Ev("optimizer.zero_grad"))

\* variant: the interval is not consulted
StepLrInTrainStep_AnyInterval(u) == u.lr_scheduler

\* lines 161-162
StepLrInTrainStep(u) == u.lr_scheduler /\ u.step_lr_interval = "step"

\* variant: no scheduler step when the scaler has just skipped the update
MaybeStepSchedulerInTrainStep_SkipOnOverflow(u, f) ==
    IF StepLrInTrainStep(u)
       /\ ~(u.grad_scaler # "None" /\ f.growth_tracker = 0)
    THEN SchedulerStep(f) ELSE f

MaybeStepSchedulerInTrainStep(u, f) ==
    IF StepLrInTrainStep(u) THEN SchedulerStep(f) ELSE f

\* variant: the hook gets the batch as the driver handed it in
UpdateMetrics_HostData(f) ==
    Call(f, [Ev("update_metrics") EXCEPT
                !.device = HostBatch.device, !.loss = f.loss,
                !.outputs = f.outputs])

\* line 165
UpdateMetrics(f) ==
    Call(f, [Ev("update_metrics") EXCEPT
                !.device = f.data.device, !.loss = f.loss,
                !.outputs = f.outputs])

\* variant: the cadence is checked on the count itself
ShouldLogStep_NoPlusOne(step_count, log_frequency_steps) ==
    PyMod(step_count, log_frequency_steps) = 0

\* line 169
ShouldLogStep(step_count, log_frequency_steps) ==
    PyMod(step_count + 1, log_frequency_steps) = 0

\* the step argument of line 171
StepLogArg(step_count) == step_count

\* lines 167-171, with state.train_state set by the driver (the assert of
\* line 167 passes); a zero frequency makes the % raise
LogStep(u, f, step_count) ==
    IF u.log_frequency_steps = 0
    THEN [f EXCEPT !.raised = "ZeroDivisionError"]
    ELSE IF ShouldLogStep(step_count, u.log_frequency_steps)
    THEN Call(f, [Ev("log_metrics") EXCEPT
                     !.step = StepLogArg(step_count), !.interval = "step"])
    ELSE f

\* variant: the loss returned is the one from before the scaling
train_step_ReturnUnscaled(u, f, data, r1, r2, inf, step_count) ==
    LET a == Forward(u, MoveData(u, f, data), r1, r2)
        b == Backward(ScaleLoss(u, a), inf)
        c == ZeroGrad(OptimizerStep(u, b))
        d == UpdateMetrics(MaybeStepSchedulerInTrainStep(u, c))
    IN IF a.raised # "" THEN a
       ELSE [LogStep(u, d, step_count) EXCEPT !.loss = a.loss]

\* variant: an error of the hook does not end the step
train_step_Continue(u, f, data, r1, r2, inf, step_count) ==
    LET a == Forward(u, MoveData(u, f, data), r1, r2)
        b == Backward(ScaleLoss(u, a), inf)
        c == ZeroGrad(OptimizerStep(u, b))
        d == UpdateMetrics(MaybeStepSchedulerInTrainStep(u, c))
    IN LogStep(u, d, step_count)

\* lines 132-173; the frame that comes back holds the returned (loss,
\* outputs), or the error raised
train_step(u, f, data, r1, r2, inf, step_count) ==
    LET a == Forward(u, MoveData(u, f, data), r1, r2)
        b == Backward(ScaleLoss(u, a), inf)
        c == ZeroGrad(OptimizerStep(u, b))
        d == UpdateMetrics(MaybeStepSchedulerInTrainStep(u, c))
    IN IF a.raised # "" THEN a ELSE LogStep(u, d, step_count)

\* -------------------------------------------------------- on_train_epoch_end
\* lines 178-179
StepLrInEpochEnd(u) == u.lr_scheduler /\ u.step_lr_interval = "epoch"

\* variant: the epoch log is gated by the step cadence
on_train_epoch_end_Gated(u, f, step_count) ==
    LET a == IF StepLrInEpochEnd(u) THEN SchedulerStep(f) ELSE f
    IN IF u.log_frequency_steps # 0
          /\ ShouldLogStep(step_count, u.log_frequency_steps)
       THEN Call(a, [Ev("log_metrics") EXCEPT
                        !.step = step_count, !.interval = "epoch"])
       ELSE a

\* variant: the epoch end starts over with a fresh scaler
on_train_epoch_end_NewScaler(u, f, step_count) ==
    LET a == IF StepLrInEpochEnd(u) THEN SchedulerStep(f) ELSE f
        b == [a EXCEPT !.scale = NewScaler.scale,
                       !.growth_tracker = NewScaler.growth_tracker]
    IN Call(b, [Ev("log_metrics") EXCEPT
                   !.step = step_count, !.interval = "epoch"])

\* lines 175-184
on_train_epoch_end(u, f, step_count) ==
    LET a == IF StepLrInEpochEnd(u) THEN SchedulerStep(f) ELSE f
    IN Call(a, [Ev("log_metrics") EXCEPT
                   !.step = step_count, !.interval = "epoch"])

\* ------------------------------------------------------------------- state
VARIABLES
    pc,                  \* "new", "ctor_failed", "idle", "stepped", "aborted"
    args,                \* the constructor's arguments
    unit,                \* the AutoTrainUnit's attributes
    ctor_error,          \* the error raised by the constructor
    num_steps_completed, \* state.train_state.progress.num_steps_completed
    scaler,              \* the grad scaler's scale factor and growth tracker
    opt_steps,           \* parameter updates applied by the optimizer
    sched_steps,         \* lr_scheduler.step() calls
    grads,               \* the parameters' .grad: "None", "finite", "inf"
    calls,               \* the calls made by the operation that ran last
    ret,                 \* what the last train_step returned or raised
    last_op,             \* the unit operation that ran last
    train_calls,         \* train_step calls so far
    epoch_calls          \* on_train_epoch_end calls so far

vars == <<pc, args, unit, ctor_error, num_steps_completed, scaler, opt_steps,
          sched_steps, grads, calls, ret, last_op, train_calls, epoch_calls>>

NoError == [raised |-> "", message |-> << >>]
NoRet == [raised |-> "", loss |-> 0, outputs |-> "-"]

Init ==
    /\ pc = "new"
    /\ args = NoArgs
    /\ unit = NoUnit
    /\ ctor_error = NoError
    /\ num_steps_completed = 0
    /\ scaler = NewScaler
    /\ opt_steps = 0
    /\ sched_steps = 0
    /\ grads = "None"
    /\ calls = << >>
    /\ ret = NoRet
    /\ last_op = "none"
    /\ train_calls = 0
    /\ epoch_calls = 0

\* the locals and collaborators an operation starts from
Frame ==
    [calls |-> << >>, data |-> HostBatch, loss |-> 0, outputs |-> "-",
     scale |-> scaler.scale, growth_tracker |-> scaler.growth_tracker,
     found_inf |-> FALSE, opt_steps |-> opt_steps,
     sched_steps |-> sched_steps, grads |-> grads, raised |-> ""]

Commit(f) ==
    /\ scaler' = [scale |-> f.scale, growth_tracker |-> f.growth_tracker]
    /\ opt_steps' = f.opt_steps
    /\ sched_steps' = f.sched_steps
    /\ grads' = f.grads
    /\ calls' = f.calls

\* AutoTrainUnit(...)
Construct ==
    /\ pc = "new"
    /\ \E a \in CtorArgs :
        LET r == AutoTrainUnitInit(a)
        IN /\ args' = a
           /\ unit' = r.unit
           /\ ctor_error' = [raised |-> r.raised, message |-> r.message]
           /\ pc' = IF r.raised # "" THEN "ctor_failed" ELSE "idle"
    /\ UNCHANGED <<num_steps_completed, scaler, opt_steps, sched_steps,
                   grads, calls, ret, last_op, train_calls, epoch_calls>>

\* variant: train_step counts the step itself
TrainStep_Counts ==
    /\ pc = "idle"
    /\ train_calls < MaxSteps
    /\ \E r1 \in HookResults, r2 \in HookResults, inf \in BOOLEAN :
        /\ r1.raises => r2 = r1
        /\ LET f == train_step(unit, Frame, HostBatch, r1, r2, inf,
                               num_steps_completed)
           IN /\ Commit(f)
              /\ ret' = IF f.raised # ""
                        THEN [raised |-> f.raised, loss |-> 0, outputs |-> "-"]
                        ELSE [raised |-> "", loss |-> f.loss,
                              outputs |-> f.outputs]
              /\ pc' = IF f.raised # "" THEN "aborted" ELSE "stepped"
              /\ num_steps_completed' =
                    IF f.raised # "" THEN num_steps_completed
                    ELSE num_steps_completed + 1
    /\ train_calls' = train_calls + 1
    /\ last_op' = "train_step"
    /\ UNCHANGED <<args, unit, ctor_error, epoch_calls>>

\* the driver calls unit.train_step(state, batch); an error raised in it
\* propagates to the driver, which ends the training
TrainStep ==
    /\ pc = "idle"
    /\ train_calls < MaxSteps
    /\ \E r1 \in HookResults, r2 \in HookResults, inf \in BOOLEAN :
        /\ r1.raises => r2 = r1
        /\ LET f == train_step(unit, Frame, HostBatch, r1, r2, inf,
                               num_steps_completed)
           IN /\ Commit(f)
              /\ ret' = IF f.raised # ""
                        THEN [raised |-> f.raised, loss |-> 0, outputs |-> "-"]
                        ELSE [raised |-> "", loss |-> f.loss,
                              outputs |-> f.outputs]
              /\ pc' = IF f.raised # "" THEN "aborted" ELSE "stepped"
    /\ train_calls' = train_calls + 1
    /\ last_op' = "train_step"
    /\ UNCHANGED <<args, unit, ctor_error, num_steps_completed, epoch_calls>>

\* the driver counts the step once train_step has returned
DriverAdvance ==
    /\ pc = "stepped"
    /\ num_steps_completed' = num_steps_completed + 1
    /\ pc' = "idle"
    /\ UNCHANGED <<args, unit, ctor_error, scaler, opt_steps, sched_steps,
                   grads, calls, ret, last_op, train_calls, epoch_calls>>

\* the driver calls unit.on_train_epoch_end(state)
OnTrainEpochEnd ==
    /\ pc = "idle"
    /\ epoch_calls < MaxEpochs
    /\ Commit(on_train_epoch_end(unit, Frame, num_steps_completed))
    /\ epoch_calls' = epoch_calls + 1
    /\ last_op' = "on_train_epoch_end"
    /\ UNCHANGED <<pc, args, unit, ctor_error, num_steps_completed, ret,
                   train_calls>>

Next ==
    \/ Construct
    \/ TrainStep
    \/ DriverAdvance
    \/ OnTrainEpochEnd

Spec == Init /\ [][Next]_vars

\* ------------------------------------------------------------- properties
Idx(op) == {i \in DOMAIN calls : calls[i].op = op}
LogIdx(interval) ==
    {i \in DOMAIN calls :
        calls[i].op = "log_metrics" /\ calls[i].interval = interval}
The(op) == CHOOSE i \in Idx(op) : TRUE
Once(op) == Cardinality(Idx(op)) = 1
Never(op) == Idx(op) = {}

\* the operation that ran last is a train_step that returned
Returned == last_op = "train_step" /\ ret.raised = ""
EpochEnded == last_op = "on_train_epoch_end"
Constructed == pc \in {"idle", "stepped", "aborted"}
\* every train_step so far returned
NoneRaised == pc \in {"idle", "stepped"}
HasScaler == unit.grad_scaler # "None"

\* C1: with log_frequency_steps = N >= 1 and the driver counting each
\* returned step, the k-th train_step invokes log_metrics(.., "step") exactly
\* once if k is a multiple of N and not at all otherwise, whatever
\* on_train_epoch_end calls came in between.
C1_StepLogCadence ==
    (Returned /\ unit.log_frequency_steps >= 1) =>
        Cardinality(LogIdx("step")) =
            IF train_calls % unit.log_frequency_steps = 0 THEN 1 ELSE 0

C1_Witness ==
    /\ Returned
    /\ unit.log_frequency_steps = 2
    /\ train_calls = 4
    /\ epoch_calls >= 1
    /\ LogIdx("step") # {}

\* C2: train_step returns the loss as compute_loss produced it inside the
\* autocast scope, also when a grad scaler is active.
C2_ReturnsUnscaledLoss ==
    Returned =>
        \A i \in Idx("compute_loss") :
            calls[i].scope = "autocast" => ret.loss = calls[i].loss

\* C3: a configured scheduler is stepped exactly once by every train_step
\* and never by on_train_epoch_end when step_lr_interval is "step", exactly
\* once by every on_train_epoch_end and never by train_step when it is
\* "epoch"; without a scheduler nothing is stepped.  After s returned
\* train_steps and e epoch ends it has advanced s resp. e times.
C3_SchedulerCadence ==
    LET n == Cardinality(Idx("lr_scheduler.step"))
        step == unit.lr_scheduler /\ unit.step_lr_interval = "step"
        epoch == unit.lr_scheduler /\ unit.step_lr_interval = "epoch"
    IN /\ Returned => n = IF step THEN 1 ELSE 0
       /\ EpochEnded => n = IF epoch THEN 1 ELSE 0
       /\ NoneRaised =>
            sched_steps = IF step THEN train_calls
                          ELSE IF epoch THEN epoch_calls ELSE 0

C3_Witness ==
    /\ pc = "idle"
    /\ unit.lr_scheduler
    /\ train_calls = 3
    /\ epoch_calls = 2
    /\ sched_steps \in {2, 3}

\* C4: every on_train_epoch_end invokes log_metrics exactly once, with
\* interval "epoch" and the current num_steps_completed, whatever the
\* frequency and the count, and after the per-epoch scheduler step.
C4_EpochLogAlways ==
    EpochEnded =>
        /\ Cardinality(LogIdx("epoch")) = 1
        /\ LogIdx("step") = {}
        /\ calls[Len(calls)].op = "log_metrics"
        /\ calls[Len(calls)].interval = "epoch"
        /\ calls[Len(calls)].step = num_steps_completed
        /\ \A i \in Idx("lr_scheduler.step") : i < Len(calls)

C4_Witness ==
    /\ EpochEnded
    /\ unit.lr_scheduler
    /\ unit.step_lr_interval = "epoch"
    /\ unit.log_frequency_steps = 3
    /\ num_steps_completed = 1
    /\ Len(calls) = 2

\* C5: the unit has a grad scaler iff its precision was given as "fp16" or
\* as float16: the sharded one for an FSDP module, the plain one otherwise.
C5_ScalerIffFp16 ==
    Constructed =>
        /\ unit.grad_scaler =
             IF args.precision \in {StrPrecision("fp16"),
                                    DtypePrecision("float16")}
             THEN IF args.module_is_fsdp THEN "ShardedGradScaler"
                  ELSE "GradScaler"
             ELSE "None"
        /\ HasScaler <=> unit.precision = "float16"

C5_Witness ==
    /\ Constructed
    /\ args.precision = DtypePrecision("float16")
    /\ args.module_is_fsdp
    /\ unit.grad_scaler = "ShardedGradScaler"

\* C6: "fp16" resolves to float16 and "bf16" to bfloat16, by exact match;
\* None and "" resolve to unset; a dtype is kept as given; any other string
\* fails the construction with an error naming the token and the accepted
\* fp16 and bf16, and leaves no unit.
C6_PrecisionResolution ==
    LET p == args.precision
        known == p.kind = "str" /\ p.val \in {"fp16", "bf16"}
        empty == p.kind = "none" \/ (p.kind = "str" /\ p.val = "")
    IN pc # "new" =>
        /\ (p.kind = "str" /\ p.val = "fp16") =>
              Constructed /\ unit.precision = "float16"
        /\ (p.kind = "str" /\ p.val = "bf16") =>
              Constructed /\ unit.precision = "bfloat16"
        /\ empty => Constructed /\ unit.precision = "None"
        /\ p.kind = "dtype" => Constructed /\ unit.precision = p.val
        /\ (p.kind = "str" /\ ~known /\ ~empty) =>
              /\ pc = "ctor_failed"
              /\ ctor_error.raised # ""
              /\ {p.val, "fp16", "bf16"} \subseteq Range(ctor_error.message)
              /\ unit = NoUnit
              /\ scaler = NewScaler
              /\ last_op = "none"

C6_Witness ==
    /\ pc = "ctor_failed"
    /\ args.precision = StrPrecision("FP16")
    /\ ctor_error.raised = "ValueError"

\* C7: the step argument of a log_metrics(.., "step") call is the number of
\* parameter updates that have been run on the model when it is called.
C7_StepArgIsUpdatesRun ==
    Returned => \A i \in LogIdx("step") : calls[i].step = opt_steps

\* C8: a train_step updates the parameters by one path only: with a scaler,
\* grad_scaler.step then grad_scaler.update and no direct optimizer.step;
\* without one, optimizer.step and no scaler call.  The backward pass comes
\* first.
C8_OneUpdatePath ==
    Returned =>
        /\ Once("loss.backward")
        /\ IF HasScaler
           THEN /\ Once("grad_scaler.scale")
                /\ Once("grad_scaler.step")
                /\ Once("grad_scaler.update")
                /\ Never("optimizer.step")
                /\ The("grad_scaler.scale") < The("loss.backward")
                /\ The("loss.backward") < The("grad_scaler.step")
                /\ The("grad_scaler.update") = The("grad_scaler.step") + 1
           ELSE /\ Once("optimizer.step")
                /\ Never("grad_scaler.scale")
                /\ Never("grad_scaler.step")
                /\ Never("grad_scaler.update")
                /\ The("loss.backward") < The("optimizer.step")

C8_Witness ==
    /\ Returned
    /\ HasScaler
    /\ train_calls = 2
    /\ Once("grad_scaler.update")

\* the position of the optimizer update in the calls of a train_step
UpdateAt ==
    IF HasScaler THEN The("grad_scaler.update") ELSE The("optimizer.step")

\* C9: after a train_step that returned, the gradients are None (not
\* zeros), with or without a scaler and also when the scaler skipped the
\* update; the reset comes after the optimizer update and before the
\* scheduler step and the metric hooks.
C9_GradsNoneAfterStep ==
    Returned =>
        /\ grads = "None"
        /\ Once("optimizer.zero_grad")
        /\ UpdateAt < The("optimizer.zero_grad")
        /\ \A i \in Idx("lr_scheduler.step") \cup Idx("update_metrics")
                    \cup Idx("log_metrics") :
              The("optimizer.zero_grad") < i

C9_Witness ==
    /\ Returned
    /\ HasScaler
    /\ opt_steps < train_calls
    /\ Idx("lr_scheduler.step") # {}
    /\ LogIdx("step") # {}
    /\ grads = "None"

\* C10: a train_step invokes compute_loss twice, first outside the autocast
\* scope, then inside it, and the backward pass, update_metrics and the
\* returned outputs use the second result only.
C10_SecondLossUsed ==
    Returned =>
        /\ Cardinality(Idx("compute_loss")) = 2
        /\ Once("autocast.__enter__")
        /\ Once("autocast.__exit__")
        /\ \E i, j \in Idx("compute_loss") :
            /\ i < The("autocast.__enter__")
            /\ calls[i].scope = "outside"
            /\ The("autocast.__enter__") < j
            /\ j < The("autocast.__exit__")
            /\ calls[j].scope = "autocast"
            /\ IF HasScaler
               THEN /\ calls[The("grad_scaler.scale")].loss = calls[j].loss
                    /\ calls[The("loss.backward")].loss =
                          calls[The("grad_scaler.scale")].result
               ELSE calls[The("loss.backward")].loss = calls[j].loss
            /\ calls[The("update_metrics")].outputs = calls[j].outputs
            /\ calls[The("update_metrics")].loss =
                  calls[The("loss.backward")].loss
            /\ ret.outputs = calls[j].outputs
            /\ ret.loss = calls[The("loss.backward")].loss

C10_Witness ==
    /\ Returned
    /\ \E i, j \in Idx("compute_loss") :
          i < j /\ calls[i].loss = 2 /\ calls[j].loss = 1
    /\ ret.outputs = "a"

\* the steps of a train_step that must run outside the autocast region
AfterForward ==
    Idx("grad_scaler.scale") \cup Idx("loss.backward")
        \cup Idx("grad_scaler.step") \cup Idx("grad_scaler.update")
        \cup Idx("optimizer.step")

\* C11: the autocast region of a train_step is enabled iff the unit has a
\* resolved precision, holds the loss computation only, and is left before
\* the loss is scaled, the backward pass runs and the optimizer is updated.
C11_AutocastScope ==
    (last_op = "train_step" /\ Idx("autocast.__enter__") # {}) =>
        /\ Once("autocast.__enter__")
        /\ Once("autocast.__exit__")
        /\ calls[The("autocast.__enter__")].enabled
              <=> ~PrecisionIsFalsy(args.precision)
        /\ calls[The("autocast.__enter__")].enabled
              <=> unit.precision # "None"
        /\ The("autocast.__exit__") = The("autocast.__enter__") + 2
        /\ calls[The("autocast.__enter__") + 1].op = "compute_loss"
        /\ \A i \in AfterForward : The("autocast.__exit__") < i

C11_Witness ==
    /\ Returned
    /\ unit.precision = "bfloat16"
    /\ calls[The("autocast.__enter__")].enabled
    /\ The("autocast.__exit__") < The("loss.backward")

\* what a train_step aborted by the hook must not have called
AbortedSteps ==
    AfterForward \cup Idx("optimizer.zero_grad") \cup Idx("lr_scheduler.step")
        \cup Idx("update_metrics") \cup Idx("log_metrics")

\* C12: when compute_loss raises, train_step raises that same error and
\* does nothing more: no backward pass, no scaler call, no optimizer step,
\* no gradient reset, no scheduler step, no metric hook; the scale factor,
\* the parameters and the scheduler stay as they were.
C12_HookErrorAborts ==
    [][(train_calls' = train_calls + 1
          /\ \E i \in DOMAIN calls' :
                calls'[i].op = "compute_loss" /\ calls'[i].outputs = "-")
       => /\ ret'.raised = "HookError"
          /\ pc' = "aborted"
          /\ AbortedSteps' = {}
          /\ UNCHANGED <<scaler, opt_steps, sched_steps, grads>>]_vars

C12_Witness ==
    /\ pc = "aborted"
    /\ ret.raised = "HookError"
    /\ Cardinality(Idx("compute_loss")) = 2
    /\ HasScaler
    /\ StepLrInTrainStep(unit)
    /\ train_calls = 3
    /\ scaler.scale < InitScale

\* C13: every constructed unit has log_frequency_steps > 0.
C13_FrequencyPositive ==
    Constructed => unit.log_frequency_steps > 0

\* the gradients the backward pass of the last train_step produced
Overflowed == calls[The("loss.backward")].grads = "inf"

\* C14: with the plain grad scaler, a train_step whose gradients overflow
\* leaves the parameters as they were and lowers the scale factor; one
\* without overflow updates the parameters and does not lower the factor.
C14_OverflowSkipsUpdate ==
    [][(train_calls' = train_calls + 1
          /\ unit.grad_scaler = "GradScaler"
          /\ ret'.raised = "")
       => IF Overflowed'
          THEN opt_steps' = opt_steps /\ scaler'.scale < scaler.scale
          ELSE opt_steps' = opt_steps + 1 /\ scaler'.scale >= scaler.scale]_vars

C14_Witness ==
    /\ Returned
    /\ unit.grad_scaler = "GradScaler"
    /\ args.precision = StrPrecision("fp16")
    /\ Overflowed
    /\ train_calls = 3
    /\ opt_steps = 2
    /\ 2 * scaler.scale = InitScale

\* C15: a train_step that returns invokes update_metrics exactly once, with
\* the batch that was moved to the device, after the optimizer update, the
\* gradient reset and the per-step scheduler step, and before the "step"
\* log_metrics, which, when made, is the last call of the step.
C15_UpdateMetricsOrder ==
    Returned =>
        /\ Once("update_metrics")
        /\ Once("copy_data_to_device")
        /\ calls[The("update_metrics")].device = unit.device
        /\ calls[The("update_metrics")].device =
              calls[The("copy_data_to_device")].device
        /\ UpdateAt < The("update_metrics")
        /\ The("optimizer.zero_grad") < The("update_metrics")
        /\ \A i \in Idx("lr_scheduler.step") : i < The("update_metrics")
        /\ \A i \in Idx("log_metrics") :
              /\ The("update_metrics") < i
              /\ i = Len(calls)
              /\ calls[i].interval = "step"
        /\ Idx("log_metrics") = {} => The("update_metrics") = Len(calls)

C15_Witness ==
    /\ Returned
    /\ StepLrInTrainStep(unit)
    /\ LogIdx("step") # {}
    /\ args.device = "None"
    /\ calls[The("update_metrics")].device = "cuda:0"
    /\ The("update_metrics") = Len(calls) - 1

\* C16: the scaler made at construction is the one used ever after: no
\* operation changes the unit's attributes, on_train_epoch_end and the
\* driver leave the scaler's state alone, a unit without scaler never gets
\* one, and with a scaler every train_step that returns scales by the factor
\* the previous operations left and updates the scaler once.
C16_ScalerLifecycle ==
    [][pc # "new" =>
        /\ unit' = unit
        /\ args' = args
        /\ train_calls' = train_calls => scaler' = scaler
        /\ ~HasScaler => scaler' = scaler
        /\ (train_calls' = train_calls + 1 /\ ret'.raised = "" /\ HasScaler)
           => /\ Once("grad_scaler.update")'
              /\ calls'[The("grad_scaler.scale")'].result =
                    calls'[The("grad_scaler.scale")'].loss * scaler.scale]_vars

C16_Witness ==
    /\ Returned
    /\ HasScaler
    /\ epoch_calls = 1
    /\ train_calls = 3
    /\ 4 * scaler.scale = InitScale
    /\ calls[The("grad_scaler.scale")].result =
          calls[The("grad_scaler.scale")].loss * (2 * scaler.scale)

\* C17: train_step and on_train_epoch_end leave num_steps_completed as they
\* found it, whether they return or raise; the counter moves only when the
\* driver counts a returned step.
C17_CounterReadOnly ==
    [][/\ (train_calls' # train_calls \/ epoch_calls' # epoch_calls)
            => num_steps_completed' = num_steps_completed
       /\ num_steps_completed' # num_steps_completed
            => /\ pc = "stepped"
               /\ num_steps_completed' = num_steps_completed + 1
               /\ UNCHANGED <<calls, train_calls, epoch_calls>>]_vars

C17_Witness ==
    /\ pc = "stepped"
    /\ train_calls = 3
    /\ epoch_calls = 1
    /\ num_steps_completed = 2
    /\ LogIdx("step") # {}

\* C18: a train_step whose update the scaler skipped still steps a per-step
\* scheduler once, still invokes update_metrics and still counts for the
\* log cadence; so a per-step scheduler has advanced once per train_step,
\* which the parameter updates applied never exceed.
C18_SkippedStepCounts ==
    LET perstep == unit.lr_scheduler /\ unit.step_lr_interval = "step"
    IN /\ (Returned /\ HasScaler /\ Overflowed) =>
            /\ Cardinality(Idx("lr_scheduler.step")) =
                  IF perstep THEN 1 ELSE 0
            /\ Once("update_metrics")
            /\ unit.log_frequency_steps >= 1 =>
                  (LogIdx("step") # {}
                     <=> train_calls % unit.log_frequency_steps = 0)
       /\ (NoneRaised /\ perstep) =>
            /\ sched_steps = train_calls
            /\ opt_steps <= sched_steps

C18_Witness ==
    /\ Returned
    /\ HasScaler
    /\ Overflowed
    /\ unit.lr_scheduler
    /\ unit.step_lr_interval = "step"
    /\ unit.log_frequency_steps = 3
    /\ LogIdx("step") # {}
    /\ sched_steps = 3
    /\ opt_steps = 1

\* C19: the loss and outputs a train_step hands to update_metrics are the
\* loss and outputs it returns, for every precision and with or without a
\* scaler.
C19_MetricsGetReturnedPair ==
    Returned =>
        /\ calls[The("update_metrics")].loss = ret.loss
        /\ calls[The("update_metrics")].outputs = ret.outputs

C19_Witness ==
    /\ Returned
    /\ HasScaler
    /\ ret.loss = 2 * InitScale
    /\ calls[The("update_metrics")].loss = 2 * InitScale
    /\ ret.outputs = "b"

====
